---- MODULE Spec2Model ----
(***************************************************************************)
(* Model of js/llm.ts: the model-graded classifier pipeline.               *)
(*                                                                         *)
(*   LLMClassifierFromTemplate -> OpenAIClassifier -> cachedChatCompletion *)
(*                             -> parseResponse                            *)
(*                                                                         *)
(* Conventions.                                                            *)
(*  - A JavaScript object is a TLA+ function from its own property names  *)
(*    to values.  An object that can hold a property whose value is        *)
(*    undefined (the argument objects, the request, the options, the       *)
(*    Score) maps each property to a slot: <<v>> for the value v, << >>    *)
(*    for undefined.  An own property whose value is undefined is in the   *)
(*    DOMAIN; a missing property is not.  Objects parsed from JSON and the *)
(*    module's literal objects hold no undefined and map to plain values.  *)
(*  - An object whose property ORDER matters (a choice-score map, the      *)
(*    `properties` of a JSON schema) is a sequence of <<key, value>>       *)
(*    pairs in insertion order.                                            *)
(*  - A JavaScript string is a TLA+ string of ASCII characters;            *)
(*    startsWith, trim, join and the HTML escaping of mustache are         *)
(*    computed character by character.                                     *)
(*  - A value read out of a choice-score map is tagged with its JavaScript *)
(*    type, because the read goes through the prototype chain and may      *)
(*    yield a function instead of a number.                                *)
(***************************************************************************)
EXTENDS Integers, Sequences, FiniteSets, TLC

\* ------------------------------------------------------------------ bounds

\* Number of classifier invocations that may be in flight together.
NumInvocations == 2

\* ------------------------------------------------- JavaScript objects

EmptyObject == [k \in {} |-> TRUE]

Has(o, k) == k \in DOMAIN o

\* The slot of undefined and the slot of a value.
Undefined == << >>
Slot(v) == <<v>>
ValueOf(slot) == slot[1]

\* o.k on an object of slots: the own property's slot, undefined when the
\* object has no such property.
Get(o, k) == IF k \in DOMAIN o THEN o[k] ELSE Undefined

\* a ?? b
Coalesce(a, b) == IF a = Undefined THEN b ELSE a

\* { ...a, ...b }: every own property of b is copied over a, one whose
\* value is undefined included.
ObjectSpread(a, b) == b @@ a

\* const { k1, k2, ...rest } = o: the rest of a destructuring.
ObjectRest(o, ks) == [k \in (DOMAIN o) \ ks |-> o[k]]

\* ------------------------------------------------- JavaScript strings

CharAt(s, n) == SubSeq(s, n, n)

Digits == "0123456789"
IsDigit(c) == \E d \in 1..Len(Digits) : CharAt(Digits, d) = c
DigitOf(c) == CHOOSE d \in 1..Len(Digits) : CharAt(Digits, d) = c

\* a < b for two strings of digits of the same length.
DigitsLess(a, b) ==
  \E n \in 1..Len(a) :
    /\ SubSeq(a, 1, n - 1) = SubSeq(b, 1, n - 1)
    /\ DigitOf(CharAt(a, n)) < DigitOf(CharAt(b, n))

\* The largest array index, 2^32 - 2.
MAX_ARRAY_INDEX == "4294967294"

\* A property name that is an array index: the canonical decimal form of
\* an integer from 0 to 2^32 - 2.
IsArrayIndex(k) ==
  /\ Len(k) > 0
  /\ \A n \in 1..Len(k) : IsDigit(CharAt(k, n))
  /\ Len(k) > 1 => CharAt(k, 1) # "0"
  /\ \/ Len(k) < Len(MAX_ARRAY_INDEX)
     \/ Len(k) = Len(MAX_ARRAY_INDEX)
          /\ (k = MAX_ARRAY_INDEX \/ DigitsLess(k, MAX_ARRAY_INDEX))

\* a < b for two array indices.
IndexLess(a, b) ==
  \/ Len(a) < Len(b)
  \/ Len(a) = Len(b) /\ DigitsLess(a, b)

\* A sequence of array indices in ascending order.
RECURSIVE SortIndices(_)
SortIndices(ks) ==
  IF Len(ks) = 0 THEN << >>
  ELSE LET least == CHOOSE n \in 1..Len(ks) :
                      \A m \in 1..Len(ks) : ~IndexLess(ks[m], ks[n])
       IN <<ks[least]>> \o
            SortIndices(SubSeq(ks, 1, least - 1) \o SubSeq(ks, least + 1, Len(ks)))

\* Object.keys of an ordered object: the array indices in ascending numeric
\* order, then the other names in insertion order.
ObjectKeys(o) ==
  LET inserted == [n \in 1..Len(o) |-> o[n][1]]
      IsName(k) == ~IsArrayIndex(k)
  IN SortIndices(SelectSeq(inserted, IsArrayIndex)) \o SelectSeq(inserted, IsName)

OwnKeySet(o) == {o[n][1] : n \in 1..Len(o)}

OwnValue(o, k) == o[CHOOSE n \in 1..Len(o) : o[n][1] = k][2]

\* { ...o, [k]: v } on an ordered object: an existing key keeps its place,
\* a new key goes last.
OrderedSet(o, k, v) ==
  IF k \in OwnKeySet(o)
  THEN [n \in 1..Len(o) |-> IF o[n][1] = k THEN <<k, v>> ELSE o[n]]
  ELSE Append(o, <<k, v>>)

\* Property names every plain object inherits from Object.prototype.
ObjectPrototypeKeys ==
  {"constructor", "toString", "toLocaleString", "valueOf", "hasOwnProperty",
   "isPrototypeOf", "propertyIsEnumerable", "__proto__",
   "__defineGetter__", "__defineSetter__", "__lookupGetter__",
   "__lookupSetter__"}

JsNumber(n) == [type |-> "number", num |-> n]
JsInherited(k) ==
  [type |-> IF k = "__proto__" THEN "object" ELSE "function", inherited |-> k]
JsUndefined == [type |-> "undefined"]

\* o[k] on a plain object holding numbers: the own property, else the
\* member inherited from Object.prototype, else undefined.
PropertyRead(o, k) ==
  IF k \in OwnKeySet(o) THEN JsNumber(OwnValue(o, k))
  ELSE IF k \in ObjectPrototypeKeys THEN JsInherited(k)
  ELSE JsUndefined

\* The vertical tab, U+000B: the character itself, TLA+ has no escape for
\* it.
VT == ""

\* The white space and line terminators trim() strips, among the ASCII
\* characters: tab, line feed, vertical tab, form feed, carriage return and
\* space.
WhiteSpace == {"\t", "\n", VT, "\f", "\r", " "}

\* String.prototype.startsWith
StartsWith(s, p) == Len(s) >= Len(p) /\ SubSeq(s, 1, Len(p)) = p

RECURSIVE TrimStart(_)
TrimStart(s) ==
  IF Len(s) > 0 /\ CharAt(s, 1) \in WhiteSpace
  THEN TrimStart(SubSeq(s, 2, Len(s)))
  ELSE s

RECURSIVE TrimEnd(_)
TrimEnd(s) ==
  IF Len(s) > 0 /\ CharAt(s, Len(s)) \in WhiteSpace
  THEN TrimEnd(SubSeq(s, 1, Len(s) - 1))
  ELSE s

\* String.prototype.trim
Trim(s) == TrimEnd(TrimStart(s))

\* Array.prototype.join
RECURSIVE Join(_, _)
Join(a, sep) ==
  IF Len(a) = 0 THEN ""
  ELSE IF Len(a) = 1 THEN a[1]
  ELSE a[1] \o sep \o Join(Tail(a), sep)

\* ------------------------------------------------------------- mustache
\* A template string is kept in parsed form: a sequence of tokens, each a
\* literal text or a {{name}} tag.  Concatenating two template strings
\* concatenates their tokens.

Text(t) == [text |-> t]
Tag(n) == [name |-> n]

\* mustache's escapeHtml entity map.  (The backquote, which mustache writes
\* as &#x60;, cannot occur in a TLA+ string and so in no modelled input.)
EscapeChar(c) ==
  CASE c = "&" -> "&amp;"
    [] c = "<" -> "&lt;"
    [] c = ">" -> "&gt;"
    [] c = "\"" -> "&quot;"
    [] c = "'" -> "&#39;"
    [] c = "/" -> "&#x2F;"
    [] c = "=" -> "&#x3D;"
    [] OTHER -> c

RECURSIVE EscapeHtml(_)
EscapeHtml(s) ==
  IF Len(s) = 0 THEN ""
  ELSE EscapeChar(CharAt(s, 1)) \o EscapeHtml(SubSeq(s, 2, Len(s)))

\* String(value) of a render argument: an array of labels prints as its
\* elements joined by commas, a boolean as true / false.
ToStringOf(k, v) ==
  IF k = "__choices" THEN Join(v, ",")
  ELSE IF k = "useCoT" THEN (IF v THEN "true" ELSE "false")
  ELSE v

\* A literal renders as itself, a tag as the escaped value of its name in
\* the view, and as nothing when that value is missing or undefined.
RenderToken(tok, view) ==
  IF Has(tok, "text") THEN tok.text
  ELSE LET value == Get(view, tok.name)
       IN IF value = Undefined THEN ""
          ELSE EscapeHtml(ToStringOf(tok.name, ValueOf(value)))

\* mustache.render(template, view)
RECURSIVE MustacheRender(_, _)
MustacheRender(template, view) ==
  IF Len(template) = 0 THEN ""
  ELSE RenderToken(template[1], view) \o MustacheRender(Tail(template), view)

\* ---------------------------------------------------- module constants
\* The backquotes of the two suffix texts are written as apostrophes.

NO_COT_SUFFIX ==
  << Text("Answer the question by calling 'select_choice' with a single choice from "),
     Tag("__choices"),
     Text(".") >>

COT_SUFFIX ==
  << Text("Answer the question by calling 'select_choice' with your reasoning in a step-by-step manner to be sure that your conclusion is correct. Avoid simply stating the correct answer at the outset. Select a single choice by setting the 'choice' parameter to a single choice from "),
     Tag("__choices"),
     Text(".") >>

SUPPORTED_MODELS == <<"gpt-3.5-turbo", "gpt-4">>

CHOICE_PROPERTY ==
  [description |-> "The choice", title |-> "Choice", type |-> "string"]

PLAIN_RESPONSE_SCHEMA ==
  [ properties |-> << <<"choice", CHOICE_PROPERTY>> >>,
    required |-> <<"choice">>,
    title |-> "FunctionResponse",
    type |-> "object" ]

COT_RESPONSE_SCHEMA ==
  [ properties |->
      << <<"reasons",
           [ description |-> "Write out in a step by step manner your reasoning to be sure that your conclusion is correct. Avoid simply stating the correct answer at the outset.",
             items |-> [type |-> "string"],
             title |-> "Reasons",
             type |-> "array" ]>>,
         <<"choice", CHOICE_PROPERTY>> >>,
    required |-> <<"reasons", "choice">>,
    title |-> "CoTResponse",
    type |-> "object" ]

\* The two module-level schema objects as they sit in memory.
BaseSchemas == [plain |-> PLAIN_RESPONSE_SCHEMA, cot |-> COT_RESPONSE_SCHEMA]

\* ------------------------------------------ buildClassificationFunctions
\* Returns the function list (ret) and the module-level schema objects as
\* the call leaves them (base): the call copies, it assigns to neither.

\* Mutant: the enum is assigned into the module-level schema.
buildClassificationFunctionsInPlace(base, useCoT, choiceStrings) ==
  LET params == IF useCoT THEN base.cot ELSE base.plain
      choice == ObjectSpread(OwnValue(params.properties, "choice"),
                             [enum |-> choiceStrings])
      enumParams ==
        [params EXCEPT !.properties = OrderedSet(params.properties, "choice", choice)]
  IN [ ret |-> << [ name |-> "select_choice",
                    description |-> "Call this function to select a choice.",
                    parameters |-> enumParams ] >>,
       base |-> IF useCoT THEN [base EXCEPT !.cot = enumParams]
                ELSE [base EXCEPT !.plain = enumParams] ]

buildClassificationFunctions(base, useCoT, choiceStrings) ==
  LET params == IF useCoT THEN base.cot ELSE base.plain
      choice == ObjectSpread(OwnValue(params.properties, "choice"),
                             [enum |-> choiceStrings])
      enumParams ==
        [params EXCEPT !.properties = OrderedSet(params.properties, "choice", choice)]
  IN [ ret |-> << [ name |-> "select_choice",
                    description |-> "Call this function to select a choice.",
                    parameters |-> enumParams ] >>,
       base |-> base ]

\* -------------------------------------------------------- parseResponse

Return(v) == [kind |-> "return", value |-> v]
Throw(e) == [kind |-> "throw", error |-> e]

\* The function-call arguments are a JSON text: either one that JSON.parse
\* rejects, or the serialisation of an object.
NotJson == [wellFormed |-> FALSE]
JsonOf(obj) == [wellFormed |-> TRUE, object |-> obj]

\* Mutant: join() with its default separator, the comma.
RationaleCommaJoined(args) ==
  IF Has(args, "reasons") THEN Slot(Join(args.reasons, ",")) ELSE Undefined

\* args["reasons"]?.join("\n")
Rationale(args) ==
  IF Has(args, "reasons") THEN Slot(Join(args.reasons, "\n")) ELSE Undefined

\* Mutant: a truthiness test, if (choiceScores[choice]).
IsTruthy(v) == v # JsUndefined /\ v # JsNumber(0)

\* choiceScores[choice] !== undefined
IsDefined(v) == v # JsUndefined

\* choiceScores is a slot: a read of a property of undefined is a
\* TypeError, as is the trim of a missing choice.
parseResponse(resp, choiceScores) ==
  LET text == resp.function_call.arguments IN
  IF ~text.wellFormed THEN Throw("SyntaxError")
  ELSE
    LET args == text.object
        rationale == Rationale(args)
    IN
    IF ~Has(args, "choice") THEN Throw("TypeError")
    ELSE
      LET choice == Trim(args.choice)
          metadata == [rationale |-> rationale, choice |-> Slot(choice)]
      IN IF choiceScores = Undefined THEN Throw("TypeError")
         ELSE LET found == PropertyRead(ValueOf(choiceScores), choice)
              IN IF IsDefined(found)
                 THEN Return([score |-> Slot(found), metadata |-> Slot(metadata)])
                 ELSE Throw("Unknown score choice " \o choice)

\* --------------------------------------------- LLMClassifierFromTemplate

DEFAULT_MODEL == "gpt-3.5-turbo"

\* The closure LLMClassifierFromTemplate builds from its parameter: the
\* destructured fields, each a slot (model defaulted when undefined), and
\* the labels of choiceScores.
LLMClassifierFromTemplate(p) ==
  [ name |-> Get(p, "name"),
    promptTemplate |-> Get(p, "promptTemplate"),
    choiceScores |-> Get(p, "choiceScores"),
    model |-> IF Get(p, "model") = Undefined THEN Slot(DEFAULT_MODEL)
              ELSE Get(p, "model"),
    useCoTArg |-> Get(p, "useCoT"),
    temperature |-> Get(p, "temperature"),
    choiceStrings |-> ObjectKeys(ValueOf(Get(p, "choiceScores"))) ]

LLMClassifierFromSpec(name, spec) ==
  LLMClassifierFromTemplate(
    [ name |-> Slot(name),
      promptTemplate |-> Get(spec, "prompt"),
      choiceScores |-> Get(spec, "choice_scores"),
      model |-> Get(spec, "model"),
      useCoT |-> Get(spec, "use_cot"),
      temperature |-> Get(spec, "temperature") ])

\* runtimeArgs.useCoT ?? useCoTArg ?? true
ResolveUseCoT(cl, runtimeArgs) ==
  ValueOf(Coalesce(Get(runtimeArgs, "useCoT"), Coalesce(cl.useCoTArg, Slot(TRUE))))

\* promptTemplate + "\n" + (useCoT ? COT_SUFFIX : NO_COT_SUFFIX)
Prompt(cl, useCoT) ==
  ValueOf(cl.promptTemplate) \o <<Text("\n")>>
    \o (IF useCoT THEN COT_SUFFIX ELSE NO_COT_SUFFIX)

MAX_TOKENS == 512

\* The object the scorer passes to OpenAIClassifier: the classifier's own
\* fields (temperature is there even when undefined), then the spread of
\* runtimeArgs, then useCoT.
ScorerArgs(cl, functions, useCoT, runtimeArgs) ==
  ObjectSpread(
    ObjectSpread(
      [ name |-> cl.name,
        messages |-> Slot(<< [role |-> "user", content |-> Prompt(cl, useCoT)] >>),
        choiceScores |-> cl.choiceScores,
        classificationFunctions |-> Slot(functions),
        model |-> cl.model,
        maxTokens |-> Slot(MAX_TOKENS),
        temperature |-> cl.temperature,
        __choices |-> Slot(cl.choiceStrings) ],
      runtimeArgs),
    [useCoT |-> Slot(useCoT)])

\* The body of the scorer up to its call of OpenAIClassifier: the resolved
\* mode, the functions built for it, the argument object, and the
\* module-level schemas as the call leaves them.
Scorer(cl, base, runtimeArgs) ==
  LET useCoT == ResolveUseCoT(cl, runtimeArgs)
      built == buildClassificationFunctions(base, useCoT, cl.choiceStrings)
  IN [ useCoT |-> useCoT,
       functions |-> built.ret,
       args |-> ScorerArgs(cl, built.ret, useCoT, runtimeArgs),
       base |-> built.base ]

\* ------------------------------------------------------ OpenAIClassifier

AuthKeys ==
  {"openAiApiKey", "openAiOrganizationId", "openAiBaseUrl",
   "openAiDefaultHeaders", "openAiDangerouslyAllowBrowser"}

ClassifierKeys ==
  {"messages", "model", "choiceScores", "classificationFunctions",
   "maxTokens", "temperature", "cache"}

\* { k1, k2, ... } of destructured variables: each name is a property,
\* with the slot the variable holds.
Shorthand(o, ks) == [k \in ks |-> Get(o, k)]

\* Mutant: the model name must equal a supported name.
ModelSupportedExact(model) ==
  \E n \in 1..Len(SUPPORTED_MODELS) : model = SUPPORTED_MODELS[n]

ModelSupported(model) ==
  \E n \in 1..Len(SUPPORTED_MODELS) : StartsWith(model, SUPPORTED_MODELS[n])

UnsupportedModel(model) ==
  "Unsupported model: " \o model \o ". Currently only supports OpenAI chat models."

\* temperature || 0: undefined and 0 both give 0.
OrZero(temperature) ==
  IF temperature = Undefined THEN 0
  ELSE IF ValueOf(temperature) = 0 THEN 0
  ELSE ValueOf(temperature)

\* { temperature: temperature || 0, max_tokens: maxTokens }
ExtraArgs(args) ==
  [ temperature |-> Slot(OrZero(Get(args, "temperature"))),
    max_tokens |-> Get(args, "maxTokens") ]

\* { output, expected, ...remainingRenderArgs }
RenderArgs(args) ==
  ObjectSpread(
    Shorthand(args, {"output", "expected"}),
    ObjectRest(args, {"name", "output", "expected"} \cup AuthKeys \cup ClassifierKeys))

\* messagesArg.map(m => ({ ...m, content: m.content ? render : "" }))
RenderMessages(messagesArg, renderArgs) ==
  [ n \in 1..Len(messagesArg) |->
      [ messagesArg[n] EXCEPT !.content =
          IF Len(@) > 0 THEN MustacheRender(@, renderArgs) ELSE "" ] ]

\* The request handed to cachedChatCompletion.
ChatParams(args) ==
  ObjectSpread(
    [ model |-> Get(args, "model"),
      messages |-> Slot(RenderMessages(ValueOf(Get(args, "messages")), RenderArgs(args))),
      functions |-> Get(args, "classificationFunctions"),
      function_call |-> Slot([name |-> "select_choice"]) ],
    ExtraArgs(args))

\* Mutant: the cache is not handed on.
ChatOptionsWithoutCache(args) == Shorthand(args, AuthKeys)

\* The options handed to cachedChatCompletion: the cache and the auth.
ChatOptions(args) == Shorthand(args, {"cache"} \cup AuthKeys)

\* OpenAIClassifier up to its await: startsWith on an undefined model is a
\* TypeError, a model without a supported prefix is rejected, map on
\* undefined messages is a TypeError; else it calls cachedChatCompletion
\* with the request and the options.
OpenAIClassifier(args) ==
  IF Get(args, "model") = Undefined THEN Throw("TypeError")
  ELSE IF ~ModelSupported(ValueOf(Get(args, "model")))
  THEN Throw(UnsupportedModel(ValueOf(Get(args, "model"))))
  ELSE IF Get(args, "messages") = Undefined THEN Throw("TypeError")
  ELSE [ kind |-> "await",
         renderArgs |-> RenderArgs(args),
         params |-> ChatParams(args),
         options |-> ChatOptions(args),
         name |-> Get(args, "name"),
         choiceScores |-> Get(args, "choiceScores") ]

EMPTY_RESPONSE == "Empty response from OpenAI"

\* OpenAIClassifier after its await: { name, ...parseResponse(...) }.
Resume(call, resp) ==
  IF Len(resp.choices) > 0
  THEN LET parsed == parseResponse(resp.choices[1].message, call.choiceScores)
       IN IF parsed.kind = "throw" THEN parsed
          ELSE Return(ObjectSpread([name |-> call.name], parsed.value))
  ELSE Throw(EMPTY_RESPONSE)

\* -------------------------------------------------- cachedChatCompletion
\* The cache is a map from requests to the responses stored for them.

\* The caller handed a cache on.
HasCache(options) == Get(options, "cache") # Undefined

CacheGet(c, options, params) ==
  IF HasCache(options) /\ params \in DOMAIN c
  THEN [hit |-> TRUE, value |-> c[params]]
  ELSE [hit |-> FALSE]

CacheSet(c, options, params, completion) ==
  IF HasCache(options) THEN (params :> completion) @@ c ELSE c

\* ================================================================ state

VARIABLES
  classifier,   \* the closure built by LLMClassifierFromSpec
  baseSchemas,  \* PLAIN_RESPONSE_SCHEMA and COT_RESPONSE_SCHEMA in memory
  cache,        \* the shared ChatCache: request -> stored response
  pc,           \* per invocation: idle, lookup, network, store, resume, done
  runtimeArgs,  \* per invocation: the object the scorer was called with
  frame,        \* per invocation: the scorer's locals (useCoT, functions)
  call,         \* per invocation: OpenAIClassifier's locals at its await
  resp,         \* per invocation: the completion it obtained
  outcome,      \* per invocation: the Score returned or the error thrown
  io,           \* per invocation: what it did to the cache and the provider
  before        \* per invocation: the invocations finished when it began

vars ==
  <<classifier, baseSchemas, cache, pc, runtimeArgs, frame, call, resp,
    outcome, io, before>>

Invocations == 1..NumInvocations

NoIO == [lookups |-> 0, calls |-> 0, stores |-> 0, found |-> FALSE, lost |-> FALSE]

\* ---------------------------------------------------------------- inputs

HumorPrompt == <<Text("Is '"), Tag("output"), Text("' funny?")>>

\* Choice-score maps as written: { Yes: 1, No: 0 }, { "2": 1, "1": 0 }, ...
YesNo == << <<"Yes", 1>>, <<"No", 0>> >>
NoYes == << <<"No", 0>>, <<"Yes", 1>> >>
Graded == << <<"A", 2>>, <<"B", 0>>, <<"C", 1>> >>
Ranked == << <<"2", 1>>, <<"1", 0>> >>

\* The objects that have the property k with one of the values, or lack it.
Optional(k, values) == {EmptyObject} \cup {k :> v : v \in values}

Slots(values) == {Slot(v) : v \in values}

\* ModelGradedSpec documents over the given maps, models and modes.
ModelGradedSpecs(maps, models, modes, temperatures) ==
  { [prompt |-> Slot(HumorPrompt), choice_scores |-> Slot(m)] @@ a @@ b @@ c :
      m \in maps,
      a \in Optional("model", models),
      b \in Optional("use_cot", modes),
      c \in Optional("temperature", temperatures) }

\* Fields a caller can put in the runtime arguments that collide with the
\* fields the scorer sets before it spreads them.
OtherFunctions == buildClassificationFunctions(BaseSchemas, FALSE, <<"Maybe">>).ret

Collisions ==
  { EmptyObject,
    [choiceScores |-> Slot(<< <<"Maybe", 5>> >>)],
    [classificationFunctions |-> Slot(OtherFunctions)],
    [__choices |-> Slot(<<"Maybe">>)],
    [messages |-> Slot(<< [role |-> "system", content |-> <<Text("Pick one.")>>] >>)],
    [name |-> Slot("Other")] }

\* Fields a caller can set to undefined in the runtime arguments.
Undefineds ==
  { k :> Undefined :
      k \in { "output", "temperature", "maxTokens", "choiceScores",
               "classificationFunctions", "__choices", "messages", "name" } }

RuntimeArgSet(outputs, models, modes, caches, others) ==
  { d @@ [output |-> o] @@ a @@ b @@ c :
      o \in outputs,
      a \in Optional("model", models),
      b \in Optional("useCoT", modes),
      c \in Optional("cache", caches),
      d \in others }

Completion(arguments) ==
  [choices |-> << [message |-> [function_call |-> [arguments |-> arguments]]] >>]

NoChoices == [choices |-> <<>>]

Replies(choices, reasons) ==
  { Completion(JsonOf(a @@ b)) :
      a \in Optional("choice", choices), b \in Optional("reasons", reasons) }
    \cup {NoChoices, Completion(NotJson)}

\* -------------------------------------------------------------- actions

InitWith(specs) ==
  /\ classifier \in {LLMClassifierFromSpec("Humor", s) : s \in specs}
  /\ baseSchemas = BaseSchemas
  /\ cache = EmptyObject
  /\ pc = [i \in Invocations |-> "idle"]
  /\ runtimeArgs = [i \in Invocations |-> EmptyObject]
  /\ frame = [i \in Invocations |-> EmptyObject]
  /\ call = [i \in Invocations |-> EmptyObject]
  /\ resp = [i \in Invocations |-> EmptyObject]
  /\ outcome = [i \in Invocations |-> EmptyObject]
  /\ io = [i \in Invocations |-> NoIO]
  /\ before = [i \in Invocations |-> {}]

\* The scorer is called: it resolves the mode, builds the prompt and the
\* schema, and enters OpenAIClassifier, which either throws for the model
\* or renders the messages and awaits cachedChatCompletion.
Invoke(i, ra) ==
  /\ pc[i] = "idle"
  /\ LET sc == Scorer(classifier, baseSchemas, ra)
         c == OpenAIClassifier(sc.args)
     IN /\ runtimeArgs' = [runtimeArgs EXCEPT ![i] = ra]
        /\ frame' = [frame EXCEPT ![i] = [useCoT |-> sc.useCoT, functions |-> sc.functions]]
        /\ baseSchemas' = sc.base
        /\ before' = [before EXCEPT ![i] = {j \in Invocations : pc[j] = "done"}]
        /\ IF c.kind = "throw"
           THEN /\ pc' = [pc EXCEPT ![i] = "done"]
                /\ outcome' = [outcome EXCEPT ![i] = c]
                /\ call' = call
           ELSE /\ pc' = [pc EXCEPT ![i] = "lookup"]
                /\ call' = [call EXCEPT ![i] = c]
                /\ outcome' = outcome
  /\ UNCHANGED <<classifier, cache, resp, io>>

\* cachedChatCompletion finds the request in the cache and returns the
\* stored response.
CacheHit(i) ==
  /\ pc[i] = "lookup"
  /\ LET got == CacheGet(cache, call[i].options, call[i].params)
     IN /\ got.hit
        /\ resp' = [resp EXCEPT ![i] = got.value]
  /\ io' = [io EXCEPT ![i].lookups = @ + 1, ![i].found = TRUE]
  /\ pc' = [pc EXCEPT ![i] = "resume"]
  /\ UNCHANGED <<classifier, baseSchemas, cache, runtimeArgs, frame, call, outcome, before>>

\* cachedChatCompletion finds nothing (or has no cache): it sends the
\* request to the provider.
CacheMiss(i) ==
  /\ pc[i] = "lookup"
  /\ ~CacheGet(cache, call[i].options, call[i].params).hit
  /\ io' = [io EXCEPT ![i].lookups = @ + (IF HasCache(call[i].options) THEN 1 ELSE 0),
                      ![i].found = call[i].params \in DOMAIN cache,
                      ![i].calls = @ + 1]
  /\ pc' = [pc EXCEPT ![i] = "network"]
  /\ UNCHANGED <<classifier, baseSchemas, cache, runtimeArgs, frame, call, resp, outcome, before>>

\* The provider answers.
NetworkReply(i, completion) ==
  /\ pc[i] = "network"
  /\ resp' = [resp EXCEPT ![i] = completion]
  /\ pc' = [pc EXCEPT ![i] = "store"]
  /\ UNCHANGED <<classifier, baseSchemas, cache, runtimeArgs, frame, call, outcome, io, before>>

\* The response is stored under the request and cachedChatCompletion
\* returns it.
CacheStore(i) ==
  /\ pc[i] = "store"
  /\ cache' = CacheSet(cache, call[i].options, call[i].params, resp[i])
  /\ io' = [io EXCEPT ![i].stores = @ + (IF HasCache(call[i].options) THEN 1 ELSE 0)]
  /\ pc' = [pc EXCEPT ![i] = "resume"]
  /\ UNCHANGED <<classifier, baseSchemas, runtimeArgs, frame, call, resp, outcome, before>>

\* The store fails: it is best-effort, the response is returned without it.
CacheStoreFails(i) ==
  /\ pc[i] = "store"
  /\ HasCache(call[i].options)
  /\ io' = [io EXCEPT ![i].lost = TRUE]
  /\ pc' = [pc EXCEPT ![i] = "resume"]
  /\ UNCHANGED <<classifier, baseSchemas, cache, runtimeArgs, frame, call, resp, outcome, before>>

\* The await of cachedChatCompletion is over: OpenAIClassifier resumes in a
\* later turn of the event loop, parses the response and settles the
\* invocation with the Score or the error.
Continue(i) ==
  /\ pc[i] = "resume"
  /\ outcome' = [outcome EXCEPT ![i] = Resume(call[i], resp[i])]
  /\ pc' = [pc EXCEPT ![i] = "done"]
  /\ UNCHANGED <<classifier, baseSchemas, cache, runtimeArgs, frame, call, resp, io, before>>

\* ------------------------------------- Spec: concurrent invocations
\* One classifier, called concurrently for a few dataset rows.

\* The rows: two requests that share the cache (the second with the
\* classifier's temperature set aside), one without a cache, and two whose
\* model fails the invocation.
RowArgs ==
  RuntimeArgSet(Slots({"a pun"}), {}, {}, Slots({"shared"}), {EmptyObject})
    \cup {[output |-> Slot("a pun"), cache |-> Slot("shared"), temperature |-> Undefined],
          [output |-> Slot("a pun"), cache |-> Slot("shared"), model |-> Slot("claude-2")],
          [output |-> Slot("a pun"), cache |-> Slot("shared"), model |-> Undefined]}

RowReplies ==
  {Completion(JsonOf([choice |-> c])) : c \in {"Yes", "Maybe", "toString"}}
    \cup {NoChoices}

Init ==
  InitWith({[prompt |-> Slot(HumorPrompt), choice_scores |-> Slot(YesNo),
             temperature |-> Slot(1)]})

Next ==
  \E i \in Invocations :
    \/ \E ra \in RowArgs : Invoke(i, ra)
    \/ CacheHit(i)
    \/ CacheMiss(i)
    \/ \E r \in RowReplies : NetworkReply(i, r)
    \/ CacheStore(i)
    \/ CacheStoreFails(i)
    \/ Continue(i)

Spec == Init /\ [][Next]_vars

\* ------------------------------------- SpecOne: one invocation, all inputs
\* One invocation of a classifier against an empty cache, over the specs,
\* runtime arguments and provider replies that exercise each branch of the
\* pipeline.  Every response comes from the provider.

OneSpecs ==
  ModelGradedSpecs({YesNo, NoYes, Graded, Ranked},
                   Slots({"gpt-4", "claude-2"}),
                   Slots({TRUE, FALSE}),
                   Slots({1}))

\* The runtime arguments: every model and mode with and without a cache,
\* and every mode with a field that collides with one the scorer sets or
\* with a field set to undefined.
OneArgs ==
  RuntimeArgSet(Slots({"it's a pun"}),
                Slots({"gpt-4-0613", "gpt-3.5-turbo-16k", "gpt-3", "my-gpt-4",
                       "text-davinci-003"}) \cup {Undefined},
                Slots({TRUE, FALSE}) \cup {Undefined},
                Slots({"shared"}),
                {EmptyObject})
    \cup RuntimeArgSet(Slots({"it's a pun"}), {},
                       Slots({TRUE, FALSE}) \cup {Undefined},
                       {},
                       Collisions \cup Undefineds)

OneReplies ==
  Replies({"Yes", " No\n", VT \o "Yes" \o VT, "B", "1", "Maybe", "yes",
           "toString", "constructor"},
          {<<>>, <<"it's a pun", "puns are funny">>})

InitOne == InitWith(OneSpecs)

NextOne ==
  \/ \E ra \in OneArgs : Invoke(1, ra)
  \/ CacheMiss(1)
  \/ \E r \in OneReplies : NetworkReply(1, r)
  \/ CacheStore(1)
  \/ CacheStoreFails(1)
  \/ Continue(1)

SpecOne == InitOne /\ [][NextOne]_vars

\* =============================================================== claims

Started(i) == pc[i] # "idle"
Done(i) == pc[i] = "done"
Awaited(i) == Has(call[i], "params")
Scored(i) == Done(i) /\ outcome[i].kind = "return"
Failed(i) == Done(i) /\ outcome[i].kind = "throw"
FailedWith(i, prefix) ==
  /\ Failed(i)
  /\ Len(outcome[i].error) >= Len(prefix)
  /\ \A n \in 1..Len(prefix) : CharAt(outcome[i].error, n) = CharAt(prefix, n)

\* The fields of the Score an invocation returned.
ScoreValue(i) == outcome[i].value.score[1]
Metadata(i) == outcome[i].value.metadata[1]

\* The runtime arguments give the field a value.
Supplied(i, k) == Has(runtimeArgs[i], k) /\ runtimeArgs[i][k] # << >>

\* The labels and scores the classifier was constructed with.
Labels == classifier.choiceStrings
ConfiguredScores == classifier.choiceScores[1]

\* The object the provider put in the function-call arguments, if the
\* invocation obtained a reply that carries one.
Replied(i) ==
  /\ Has(resp[i], "choices")
  /\ Len(resp[i].choices) > 0
  /\ resp[i].choices[1].message.function_call.arguments.wellFormed
Reply(i) == resp[i].choices[1].message.function_call.arguments.object

\* s is the label surrounded by nothing but white space.
Surrounds(s, label) ==
  \E a \in 1..(Len(s) + 1) :
    /\ a + Len(label) - 1 <= Len(s)
    /\ SubSeq(s, a, a + Len(label) - 1) = label
    /\ \A n \in (1..(a - 1)) \cup ((a + Len(label))..Len(s)) : CharAt(s, n) \in WhiteSpace

\* ---------------------------------------------------------------- C1
HasSupportedPrefix(m) ==
  \E p \in {"gpt-3.5-turbo", "gpt-4"} :
    Len(m) >= Len(p) /\ \A n \in 1..Len(p) : CharAt(m, n) = CharAt(p, n)

\* The model the invocation runs with, as a slot: the runtime field when
\* the runtime arguments have one, else the classifier's.
EffectiveModel(i) ==
  IF Has(runtimeArgs[i], "model") THEN runtimeArgs[i].model ELSE classifier.model

Named(i) == EffectiveModel(i) # << >>
ModelName(i) == EffectiveModel(i)[1]

\* C1: an invocation whose effective model name starts with neither
\* "gpt-3.5-turbo" nor "gpt-4" ends with the unsupported-model error and has
\* done no cache lookup, no cache store and no provider call; an invocation
\* whose model name starts with one of them never ends with that error.
C1_UnsupportedModelRejected ==
  \A i \in Invocations :
    (Started(i) /\ Named(i)) =>
      IF HasSupportedPrefix(ModelName(i))
      THEN ~FailedWith(i, "Unsupported model")
      ELSE /\ FailedWith(i, "Unsupported model: " \o ModelName(i))
           /\ io[i] = NoIO
           /\ ~Awaited(i)

C1_Witness ==
  \E i \in Invocations :
    /\ Named(i)
    /\ ModelName(i) = "claude-2"
    /\ Supplied(i, "cache")
    /\ FailedWith(i, "Unsupported model: claude-2")

\* ---------------------------------------------------------------- C4
\* The invocation resumed with a reply whose choice is a string, to parse
\* against a choice-score map.
Chose(i) ==
  /\ Done(i)
  /\ Replied(i)
  /\ Has(Reply(i), "choice")
  /\ call[i].choiceScores # << >>

\* The labels of the choice-score map the reply is parsed against.
ParseMap(i) == call[i].choiceScores[1]
ParseLabels(i) == {ParseMap(i)[n][1] : n \in 1..Len(ParseMap(i))}

KnownChoice(i) == \E label \in ParseLabels(i) : Surrounds(Reply(i).choice, label)

\* C4: a reply whose trimmed choice is not a label of the choice-score map
\* makes the invocation fail with the unknown-choice error; it returns no
\* Score.
C4_UnknownChoiceRejected ==
  \A i \in Invocations :
    (Chose(i) /\ ~KnownChoice(i)) => FailedWith(i, "Unknown score choice")

\* ---------------------------------------------------------------- C5
\* C5: a reply whose choice, white space around it aside, is a configured
\* label L with score S yields a Score with score S and metadata.choice L,
\* for every configured score, 0 included.
C5_KnownChoiceScored ==
  \A i \in Invocations :
    Chose(i) =>
      \A n \in 1..Len(ParseMap(i)) :
        LET label == ParseMap(i)[n][1]
            score == ParseMap(i)[n][2]
        IN Surrounds(Reply(i).choice, label) =>
             /\ Scored(i)
             /\ ScoreValue(i) = [type |-> "number", num |-> score]
             /\ Metadata(i).choice = <<label>>

C5_Witness ==
  \E i \in Invocations :
    /\ Chose(i)
    /\ Reply(i).choice = " No\n"
    /\ Scored(i)
    /\ ScoreValue(i).num = 0
    /\ Metadata(i).choice = <<"No">>

\* ---------------------------------------------------------------- C6
Parameters(functions) == functions[1].parameters
PropertyNames(schema) == [n \in 1..Len(schema.properties) |-> schema.properties[n][1]]
ChoiceProperty(schema) == OwnValue(schema.properties, "choice")
Unlabelled(schema) == ~Has(ChoiceProperty(schema), "enum")

\* C6: buildClassificationFunctions(useCoT, labels) returns one function,
\* select_choice, whose choice property has the enum labels, in order;
\* without chain of thought the properties and the required fields are
\* [choice], with it they are [reasons, choice] in that order; and the two
\* module-level schemas are as they were: no enum, their own fields.
C6_SchemaBuilt ==
  /\ \A i \in Invocations :
       Started(i) =>
         LET f == frame[i].functions
             fields == IF frame[i].useCoT THEN <<"reasons", "choice">> ELSE <<"choice">>
         IN /\ Len(f) = 1
            /\ f[1].name = "select_choice"
            /\ ChoiceProperty(Parameters(f)).enum = Labels
            /\ PropertyNames(Parameters(f)) = fields
            /\ Parameters(f).required = fields
  /\ Unlabelled(baseSchemas.plain) /\ Unlabelled(baseSchemas.cot)
  /\ PropertyNames(baseSchemas.plain) = <<"choice">>
  /\ PropertyNames(baseSchemas.cot) = <<"reasons", "choice">>
  /\ baseSchemas.plain.required = <<"choice">>
  /\ baseSchemas.cot.required = <<"reasons", "choice">>

C6_Witness ==
  \E i \in Invocations :
    /\ Started(i)
    /\ frame[i].useCoT
    /\ Labels = <<"A", "B", "C">>
    /\ ChoiceProperty(Parameters(frame[i].functions)).enum = <<"A", "B", "C">>

\* ---------------------------------------------------------------- C7
\* The mode the claim prescribes: the runtime override if supplied, else
\* the spec's default if supplied, else true.
PrescribedCoT(i) ==
  IF Supplied(i, "useCoT") THEN runtimeArgs[i].useCoT[1]
  ELSE IF classifier.useCoTArg # << >> THEN classifier.useCoTArg[1]
  ELSE TRUE

\* The request the invocation sent: its function schemas and its messages,
\* none when the field is undefined.
SentFunctions(i) == call[i].params.functions
SentMessages(i) == call[i].params.messages[1]

RequiresReasons(functions) ==
  \E n \in 1..Len(Parameters(functions).required) :
    Parameters(functions).required[n] = "reasons"

\* The suffix of the mode, with the classifier's labels filled in.
SuffixText(useCoT) ==
  MustacheRender(IF useCoT THEN COT_SUFFIX ELSE NO_COT_SUFFIX, [__choices |-> <<Labels>>])

EndsWith(s, t) == Len(s) >= Len(t) /\ SubSeq(s, Len(s) - Len(t) + 1, Len(s)) = t

\* C7: the mode is the runtime useCoT if given, else the spec's, else true,
\* and the request sent for the invocation carries the suffix of that mode
\* in its prompt and the schema of that mode in its functions.
C7_ModeSelectsSuffixAndSchema ==
  \A i \in Invocations :
    Awaited(i) =>
      /\ frame[i].useCoT = PrescribedCoT(i)
      /\ SentFunctions(i) # << >>
      /\ RequiresReasons(SentFunctions(i)[1]) = PrescribedCoT(i)
      /\ \E n \in 1..Len(SentMessages(i)) :
           EndsWith(SentMessages(i)[n].content, SuffixText(PrescribedCoT(i)))

\* ---------------------------------------------------------------- C8
JoinedByNewlines(a) ==
  LET F[n \in 0..Len(a)] ==
        IF n = 0 THEN "" ELSE IF n = 1 THEN a[1] ELSE F[n - 1] \o "\n" \o a[n]
  IN F[Len(a)]

\* metadata.rationale is absent: a read of it gives undefined.
NoRationale(i) ==
  Has(Metadata(i), "rationale") => Metadata(i).rationale = << >>

RationaleOfReply(i) ==
  IF Has(Reply(i), "reasons")
  THEN /\ Has(Metadata(i), "rationale")
       /\ Metadata(i).rationale = <<JoinedByNewlines(Reply(i).reasons)>>
  ELSE NoRationale(i)

\* C8 as claimed: in a returned Score, metadata.rationale is the reply's
\* reasons joined by newlines when the reply has reasons, and it is absent
\* whenever the invocation's mode is not chain of thought.
C8_RationaleAbsentWithoutCoT ==
  \A i \in Invocations :
    Scored(i) =>
      /\ Has(Reply(i), "reasons") => RationaleOfReply(i)
      /\ ~frame[i].useCoT => NoRationale(i)

\* C8 amended: in a returned Score, metadata.rationale is the reply's
\* reasons joined by newlines, in order, when the reply has reasons, and is
\* absent when the reply has none, whatever the invocation's mode.
C8_RationaleFollowsReply ==
  \A i \in Invocations : Scored(i) => RationaleOfReply(i)

C8_Witness ==
  \E i \in Invocations :
    /\ Scored(i)
    /\ ~frame[i].useCoT
    /\ Reply(i).choice = "Yes"
    /\ Has(Reply(i), "reasons")
    /\ Reply(i).reasons = <<"it's a pun", "puns are funny">>
    /\ Metadata(i).rationale = <<"it's a pun\npuns are funny">>

\* --------------------------------------------------------------- C10
\* C10: whatever the runtime arguments hold, the enum of the schema sent to
\* the model, the __choices rendered into the prompt and the keys of the
\* map the reply is parsed against are the labels the classifier was
\* constructed with.
C10_LabelSetsAgree ==
  \A i \in Invocations :
    Awaited(i) =>
      /\ SentFunctions(i) # << >>
      /\ ChoiceProperty(Parameters(SentFunctions(i)[1])).enum = Labels
      /\ call[i].renderArgs.__choices = <<Labels>>
      /\ call[i].choiceScores # << >>
      /\ ObjectKeys(call[i].choiceScores[1]) = Labels

\* ---------------------------------------------------------------- C2
\* The cache held what invocation i obtained when i ended.
Kept(i) == Supplied(i, "cache") /\ ~io[i].lost

\* No invocation but i and j stored a response for i's request.
OnlyPair(i, j) ==
  \A k \in Invocations \ {i, j} :
    (Awaited(k) /\ Awaited(i) /\ call[k].params = call[i].params) => io[k].stores = 0

\* The invocation is past the cache lookup of cachedChatCompletion.
Looked(i) == pc[i] \in {"network", "store", "resume", "done"}

\* C2: when a classifier is invoked a second time, after the first
\* invocation ended, with the same arguments and the shared cache that
\* kept the first response, the second invocation sends nothing to the
\* provider, the two together send at most one request, and the second
\* returns what the first returned.
C2_SecondInvocationCached ==
  \A i, j \in Invocations :
    ( /\ i \in before[j]
      /\ runtimeArgs[j] = runtimeArgs[i]
      /\ Kept(i)
      /\ Looked(j) ) =>
        /\ io[j].calls = 0
        /\ io[i].calls + io[j].calls <= 1
        /\ (Done(j) /\ OnlyPair(i, j)) => outcome[j] = outcome[i]

C2_Witness ==
  \E i, j \in Invocations :
    /\ i \in before[j]
    /\ runtimeArgs[j] = runtimeArgs[i]
    /\ Kept(i)
    /\ io[i].calls = 1
    /\ io[i].stores = 1
    /\ Scored(j)
    /\ io[j].lookups = 1
    /\ io[j].calls = 0
    /\ outcome[j] = outcome[i]

\* ---------------------------------------------------------------- C3
\* C3 as claimed: among the invocations that share the cache, at most one
\* sends a given request to the provider.
C3_OneCallPerRequest ==
  \A i, j \in Invocations :
    ( /\ i # j
      /\ Awaited(i) /\ Awaited(j)
      /\ call[i].params = call[j].params
      /\ Kept(i) /\ Kept(j) ) =>
        io[i].calls + io[j].calls <= 1

\* C3 amended: over any interleaving, an invocation looks the cache it was
\* given up once before it sends anything, sends at most one request to the
\* provider, and none when the cache held a response for its request at the
\* time it looked; invocations with the same request that all look before
\* the first of them stores each send their own.
C3_OneCallPerMiss ==
  \A i \in Invocations :
    /\ io[i].calls <= 1
    /\ io[i].lookups <= 1
    /\ (Supplied(i, "cache") /\ io[i].calls > 0) => io[i].lookups = 1
    /\ (Supplied(i, "cache") /\ io[i].found) => io[i].calls = 0

C3_Witness ==
  \E i, j \in Invocations :
    /\ i # j
    /\ Awaited(i) /\ Awaited(j)
    /\ call[i].params = call[j].params
    /\ Kept(i) /\ Kept(j)
    /\ io[i].calls = 1 /\ io[j].calls = 1
    /\ ~io[i].found /\ ~io[j].found

\* ---------------------------------------------------------------- C9
\* A Score with every field: the name, a label of the classifier's map as
\* the choice, and that label's number as the score.
CompleteScore(i) ==
  /\ Scored(i)
  /\ outcome[i].value.name = classifier.name
  /\ \E n \in 1..Len(ConfiguredScores) :
       /\ Metadata(i).choice = <<ConfiguredScores[n][1]>>
       /\ ScoreValue(i) = [type |-> "number", num |-> ConfiguredScores[n][2]]

\* A stage of the invocation went wrong: the model is not supported, the
\* provider sent no choice, the payload does not parse or names no choice,
\* or the choice is no label of the map.
WentWrong(i) ==
  \/ ~Named(i)
  \/ Named(i) /\ ~HasSupportedPrefix(ModelName(i))
  \/ Has(resp[i], "choices") /\ Len(resp[i].choices) = 0
  \/ Has(resp[i], "choices") /\ Len(resp[i].choices) > 0 /\ ~Replied(i)
  \/ Replied(i) /\ ~Has(Reply(i), "choice")
  \/ Chose(i) /\ ~KnownChoice(i)

OneOutcome(i) ==
  Done(i) =>
    /\ Failed(i) \/ CompleteScore(i)
    /\ WentWrong(i) => Failed(i)

\* The other invocations are where they were.
OthersUntouched(i) ==
  \A j \in Invocations \ {i} :
    /\ pc'[j] = pc[j]
    /\ outcome'[j] = outcome[j]
    /\ resp'[j] = resp[j]
    /\ call'[j] = call[j]

\* C9: an invocation ends with a complete Score or with an error, with an
\* error whenever one of its stages went wrong, and the step in which an
\* invocation fails leaves every other invocation as it was.
C9_ScoreOrError ==
  [][ \A i \in Invocations :
        /\ OneOutcome(i)'
        /\ (~Done(i) /\ Failed(i)') => OthersUntouched(i) ]_vars
====
